---------------------------- MODULE Spec2Model ----------------------------
(***************************************************************************)
(* Model of the API v3 CREATE write path of cgm-remote-monitor:            *)
(*   lib/api3/generic/create/operation.js   (create, createOperation,      *)
(*                                           and the update validator)     *)
(*   lib/api3/generic/create/upsert.js      (upsert)                       *)
(*   lib/api3/generic/create/validate.js    (create validator)             *)
(*   lib/api3/shared/operationTools.js      (sendJSON, validateCommon,     *)
(*                                           resolveIdentifier)            *)
(*   lib/api3/storage/mongoCollection/modify.js        (bulkWrite)         *)
(*   lib/api3/storage/mongoCachedCollection/index.js   (cached bulkWrite)  *)
(*                                                                         *)
(* Conventions.  A JavaScript object is a function from field names to     *)
(* values; a field that is `undefined` is a field that is not in the       *)
(* DOMAIN.  A JavaScript array is a sequence; positions are 1-based here   *)
(* and 0-based in the source.  `true` returned by a validator is Ok, an    *)
(* error object is a record with error = TRUE, and the value returned by   *)
(* an `async function` is a Promise, a record with the single field        *)
(* `promise`.  HTTP statuses and messages are written by the names they    *)
(* have in const.json (apiConst.HTTP and apiConst.MSG).                    *)
(***************************************************************************)
EXTENDS Integers, Sequences, FiniteSets, TLC

(***************************************************************************)
(* Bounds of the model.                                                    *)
(***************************************************************************)
\* longest request body (number of documents of a batch)
MaxDocs == 2
\* longest operation list handed directly to MongoCachedCollection.bulkWrite
MaxOps == 2

(***************************************************************************)
(* JavaScript values.                                                      *)
(***************************************************************************)
Has(o, f) == f \in DOMAIN o

\* { ...o, f: v }
With(o, f, v) == [g \in DOMAIN o \cup {f} |-> IF g = f THEN v ELSE o[g]]

\* o.f === true, o.f === false for a field that may be undefined
IsTrue(o, f) == Has(o, f) /\ o[f] = TRUE
IsFalse(o, f) == Has(o, f) /\ o[f] = FALSE

\* truthiness of a string-valued field: undefined and "" are falsy
TruthyStr(o, f) == Has(o, f) /\ o[f] # ""

\* values returned by the validators
Ok == [ok |-> TRUE]
Err(msg, st) == [error |-> TRUE, message |-> msg, httpStatus |-> st]
PromiseOf(v) == [promise |-> v]

\* null, for a document looked up and not found
NoDoc == <<>>

(***************************************************************************)
(* const.json (not among the source files): the guards of the common       *)
(* validation, in the model's scaled time unit.                            *)
(***************************************************************************)
MIN_TIMESTAMP == 10
MIN_UTC_OFFSET == -2
MAX_UTC_OFFSET == 2

(***************************************************************************)
(* operationTools.js                                                       *)
(***************************************************************************)
\* stringTools.isNullOrWhitespace on a field known to be a string
IsNullOrWhitespace(s) == s = "" \/ s = " "

validateSingleDoc(singleDoc, isPatching) ==
  IF (~isPatching \/ Has(singleDoc, "date"))
     /\ (~Has(singleDoc, "date") \/ singleDoc.date <= MIN_TIMESTAMP)
  THEN Err("HTTP_400_BAD_FIELD_DATE", "BAD_REQUEST")
  ELSE IF (~isPatching \/ Has(singleDoc, "utcOffset"))
          /\ (~Has(singleDoc, "utcOffset")
              \/ singleDoc.utcOffset < MIN_UTC_OFFSET
              \/ singleDoc.utcOffset > MAX_UTC_OFFSET)
  THEN Err("HTTP_400_BAD_FIELD_UTC", "BAD_REQUEST")
  ELSE IF (~isPatching \/ Has(singleDoc, "app"))
          /\ (~Has(singleDoc, "app") \/ IsNullOrWhitespace(singleDoc.app))
  THEN Err("HTTP_400_BAD_FIELD_APP", "BAD_REQUEST")
  ELSE Ok

\* `async function validateCommon`: for a single document the caller gets a
\* Promise of validateSingleDoc's result, never the result itself.
validateCommon(doc, isPatching) == PromiseOf(validateSingleDoc(doc, isPatching))

\* uuid.v5 of the key: a deterministic, injective stand-in for the hash
calculateIdentifier(doc) ==
  LET device == IF Has(doc, "device") THEN doc.device ELSE "undefined"
      date == IF Has(doc, "date") THEN ToString(doc.date) ELSE "undefined"
      key == device \o "_" \o date
  IN "uuid5:" \o (IF TruthyStr(doc, "eventType")
                    THEN key \o "_" \o doc.eventType ELSE key)

\* faulty variant of resolveIdentifier: an identifier that disagrees with the
\* computed value is overwritten
resolveIdentifierStrict(doc) == With(doc, "identifier", calculateIdentifier(doc))
\* resolveIdentifier mutates doc; the result is the document afterwards
resolveIdentifier(doc) ==
  IF TruthyStr(doc, "identifier") THEN doc
  ELSE With(doc, "identifier", calculateIdentifier(doc))

\* the JSON body res.status(..).json(..) receives
sendJSON(status, fields) ==
  [g \in {"status"} \cup DOMAIN fields |->
     IF g \in DOMAIN fields THEN fields[g] ELSE status]

\* `if (description)`: an undefined description, <<>> here, adds no field
sendJSONStatus(status, title, description) ==
  IF description = <<>> THEN [status |-> status, message |-> title]
  ELSE [status |-> status, message |-> title, description |-> description]

(***************************************************************************)
(* create/validate.js and the update validator of operation.js             *)
(***************************************************************************)
\* commonValidationResult !== true && commonValidationResult.error
CommonFailed(r) == r # Ok /\ IsTrue(r, "error")

\* `async function validate(opCtx, doc)`, single document branch
validateCreate(doc) ==
  PromiseOf(
    IF ~Has(doc, "identifier") \/ IsNullOrWhitespace(doc.identifier)
    THEN Err("HTTP_400_BAD_FIELD_IDENTIFIER", "BAD_REQUEST")
    ELSE LET commonValidationResult == validateCommon(doc, FALSE)
         IN IF CommonFailed(commonValidationResult)
            THEN commonValidationResult ELSE Ok)

immutable ==
  << "identifier", "date", "utcOffset", "eventType", "device", "app",
     "srvCreated", "subject", "srvModified", "modifiedBy", "isValid" >>

isReadOnlyDoc(storageDoc) ==
  \/ IsTrue(storageDoc, "isReadOnly")
  \/ IsTrue(storageDoc, "readOnly")
  \/ IsTrue(storageDoc, "readonly")

\* the body of the loop over `immutable`: TRUE when the loop returns the error
ImmutableChanged(doc, storageDoc, field, isDeduplication) ==
  /\ ~(field = "identifier" /\ isDeduplication)
  /\ ~IsFalse(storageDoc, "isValid")
  /\ Has(doc, field)
  /\ (~Has(storageDoc, field) \/ doc[field] # storageDoc[field])

validateUpdate(doc, storageDoc, isDeduplication) ==
  IF isReadOnlyDoc(storageDoc)
  THEN Err("HTTP_422_READONLY_MODIFICATION", "UNPROCESSABLE_ENTITY")
  ELSE LET bad == {k \in DOMAIN immutable :
                     ImmutableChanged(doc, storageDoc, immutable[k], isDeduplication)}
       IN IF bad # {}
          THEN LET k == CHOOSE j \in bad : \A m \in bad : j <= m
               IN Err("HTTP_400_IMMUTABLE_FIELD:" \o immutable[k], "BAD_REQUEST")
          ELSE LET commonValidationResult == validateCommon(doc, FALSE)
               IN IF CommonFailed(commonValidationResult)
                  THEN commonValidationResult ELSE Ok

(***************************************************************************)
(* Collaborators of the write path that are not among the source files:    *)
(* col.parseDate, security.demandPermission, storage.identifyingFilter and *)
(* storage.findOneFilter.                                                  *)
(***************************************************************************)
\* col.parseDate: the documents of the model carry numeric dates, which it
\* leaves as they are
parseDate(doc) == doc

\* primary key of the identifying filter: exact identifier match; the filter
\* object has no top-level _id
identifyingFilter(identifier) == [identifier |-> identifier]

\* at most one stored record matching the filter, as the array findOneFilter
\* resolves to
findOneFilter(filter, stored) ==
  LET hits == {s \in stored : s.identifier = filter.identifier}
  IN IF hits = {} THEN <<>> ELSE << CHOOSE s \in hits : TRUE >>

\* the error a refused demandPermission rejects with
Forbidden == [message |-> "HTTP_403_MISSING_PERMISSION", httpStatus |-> "FORBIDDEN"]

(***************************************************************************)
(* upsert.js: the preparation of one document                              *)
(***************************************************************************)
\* auth && auth.subject && auth.subject.name; no subject name is ""
StampSubject(docItem, subjectName) ==
  IF subjectName # "" THEN With(docItem, "subject", subjectName) ELSE docItem

\* faulty variant of PrepareSync: the subject is not stamped before the lookup
\* and the validation, only onto the validated document
PrepareSyncUnstamped(originalDoc, subjectName) == resolveIdentifier(parseDate(originalDoc))
\* lines 38-49: the copy of the input document up to the dedup lookup
PrepareSync(originalDoc, subjectName) ==
  StampSubject(resolveIdentifier(parseDate(originalDoc)), subjectName)

\* new Error(result.message || fallback) with err.httpStatus = result.httpStatus || 400
ValidationError(result, fallback) ==
  [message |-> IF TruthyStr(result, "message") THEN result.message ELSE fallback,
   httpStatus |-> IF TruthyStr(result, "httpStatus") THEN result.httpStatus
                  ELSE "BAD_REQUEST"]

\* faulty variant of PrepareReplace: the creation time is stamped like the
\* modification time
PrepareReplaceCreatedNow(docItem, storageDoc, subjectName, ifUnmodifiedSince, currentTime) ==
  LET validationResultUpdate == validateUpdate(docItem, storageDoc, TRUE)
  IN IF validationResultUpdate # Ok
     THEN [thrown |-> ValidationError(validationResultUpdate, "Update validation failed")]
     ELSE IF ifUnmodifiedSince # <<>>
     THEN [thrown |-> [message |-> "dateTools is not defined"]]
     ELSE LET d1 == With(docItem, "srvModified", currentTime)
              d2 == With(d1, "srvCreated", currentTime)
          IN [intent |->
               [replaceOne |-> [filter |-> identifyingFilter(docItem.identifier),
                                replacement |-> StampSubject(d2, subjectName),
                                upsert |-> FALSE]]]
\* lines 59-90, after demandPermission resolved: the replace intent, or the
\* error thrown.  dateTools is not imported by upsert.js, so evaluating the
\* second operand of the If-Unmodified-Since test throws a ReferenceError.
PrepareReplace(docItem, storageDoc, subjectName, ifUnmodifiedSince, currentTime) ==
  LET validationResultUpdate == validateUpdate(docItem, storageDoc, TRUE)
  IN IF validationResultUpdate # Ok
     THEN [thrown |-> ValidationError(validationResultUpdate, "Update validation failed")]
     ELSE IF ifUnmodifiedSince # <<>>
     THEN [thrown |-> [message |-> "dateTools is not defined"]]
     ELSE LET d1 == With(docItem, "srvModified", currentTime)
              d2 == With(d1, "srvCreated",
                         IF Has(storageDoc, "srvCreated") /\ storageDoc.srvCreated # 0
                         THEN storageDoc.srvCreated ELSE currentTime)
          IN [intent |->
               [replaceOne |-> [filter |-> identifyingFilter(docItem.identifier),
                                replacement |-> StampSubject(d2, subjectName),
                                upsert |-> FALSE]]]

\* lines 95-111, after demandPermission resolved: validateCreate is an async
\* function and is called without await, so validationResultCreate is a Promise
PrepareInsert(docItem, subjectName, currentTime) ==
  LET validationResultCreate == validateCreate(docItem)
  IN IF validationResultCreate # Ok
     THEN [thrown |-> ValidationError(validationResultCreate, "Create validation failed")]
     ELSE LET d1 == With(docItem, "srvModified", currentTime)
              d2 == With(d1, "srvCreated", currentTime)
          IN [intent |-> [insertOne |-> [document |-> StampSubject(d2, subjectName)]]]

\* faulty variant of CatchPreparation: the catch block rethrows and records nothing
CatchPreparationRethrows(errors, i, docItem, originalDoc, err, operationType) == errors

\* lines 120-128: the catch block of a preparation task
CatchPreparation(errors, i, docItem, originalDoc, err, operationType) ==
  Append(errors,
    [index |-> i,
     identifier |-> IF TruthyStr(docItem, "identifier") THEN docItem.identifier
                    ELSE IF TruthyStr(originalDoc, "identifier")
                         THEN originalDoc.identifier ELSE "N/A",
     error |-> IF TruthyStr(err, "message") THEN err.message ELSE "Preparation failed",
     httpStatus |-> IF TruthyStr(err, "httpStatus") THEN err.httpStatus
                    ELSE "INTERNAL_ERROR",
     operationType |-> operationType])

(***************************************************************************)
(* The bulk write of the storage layer (modify.js hands the operations to  *)
(* the driver's col.bulkWrite) and the result object it resolves to.       *)
(***************************************************************************)
\* the elements of a set of positions, in increasing order
SortedSeq(S) ==
  [k \in 1..Cardinality(S) |-> CHOOSE x \in S : Cardinality({y \in S : y < x}) = k - 1]

colName == "entries"

IsInsert(op) == Has(op, "insertOne")
IsReplace(op) == Has(op, "replaceOne")

\* the document an operation writes
OpDoc(op) == IF IsInsert(op) THEN op.insertOne.document ELSE op.replaceOne.replacement

\* positions the unique key on identifier refuses: an insert of an identifier
\* that is stored already
DuplicateKey(operations, stored) ==
  {k \in DOMAIN operations :
     /\ IsInsert(operations[k])
     /\ \E s \in stored : s.identifier = operations[k].insertOne.document.identifier}

\* the id the storage assigns to the insert at position k
AssignedId(k) == "oid-new-" \o ToString(k)

\* the BulkWriteResult for the unordered call in which exactly the positions
\* of failed were refused: every other operation committed
BulkResult(operations, failed) ==
  LET inserts == {k \in DOMAIN operations : IsInsert(operations[k])}
      replaces == {k \in DOMAIN operations : IsReplace(operations[k])}
      errs == SortedSeq(failed)
      ins == SortedSeq(inserts)
  IN [insertedCount |-> Cardinality(inserts \ failed),
      modifiedCount |-> Cardinality(replaces \ failed),
      matchedCount |-> Cardinality(replaces \ failed),
      upsertedCount |-> 0,
      writeErrors |-> [j \in DOMAIN errs |->
                         [index |-> errs[j], code |-> 11000,
                          errmsg |-> "E11000 duplicate key error"]],
      insertedIds |-> [j \in DOMAIN ins |-> [index |-> ins[j], _id |-> AssignedId(ins[j])]],
      upsertedIds |-> <<>>]

\* the stored records after the committed operations of the call
ApplyOne(stored, op, k) ==
  IF IsInsert(op)
  THEN stored \cup {With(op.insertOne.document, "_id", AssignedId(k))}
  ELSE LET hits == {s \in stored : s.identifier = op.replaceOne.filter.identifier}
       IN IF hits = {} THEN stored
          ELSE LET old == CHOOSE s \in hits : TRUE
               IN (stored \ {old}) \cup {With(op.replaceOne.replacement, "_id", old._id)}

RECURSIVE ApplyFrom(_, _, _, _)
ApplyFrom(stored, operations, failed, k) ==
  IF k > Len(operations) THEN stored
  ELSE ApplyFrom(IF k \in failed THEN stored ELSE ApplyOne(stored, operations[k], k),
                 operations, failed, k + 1)

ApplyBulk(stored, operations, failed) == ApplyFrom(stored, operations, failed, 1)

(***************************************************************************)
(* mongoCachedCollection/index.js                                          *)
(***************************************************************************)
\* bulkResult.hasWriteErrors() && bulkResult.getWriteErrors().some(err => err.index === i)
isWriteError(bulkResult, i) ==
  \E j \in DOMAIN bulkResult.writeErrors : bulkResult.writeErrors[j].index = i

\* lines 147-173 and 201-220: what one operation adds to docsToUpdateInCache
DocsToCacheOf(op, bulkResult, i) ==
  IF isWriteError(bulkResult, i) THEN <<>>
  ELSE IF IsInsert(op)
  THEN LET found == {j \in DOMAIN bulkResult.insertedIds :
                       bulkResult.insertedIds[j].index = i}
       IN IF found = {} THEN <<>>
          ELSE << With(op.insertOne.document, "_id",
                       bulkResult.insertedIds[CHOOSE j \in found : TRUE]._id) >>
  ELSE IF IsReplace(op)
  THEN LET r == op.replaceOne.replacement
           f == op.replaceOne.filter
       IN IF TruthyStr(r, "_id") THEN << r >>
          ELSE IF TruthyStr(f, "_id") THEN << With(r, "_id", f._id) >>
          ELSE << [g \in DOMAIN r \ {"_id"} |-> r[g]] >>
  ELSE <<>>

RECURSIVE DocsToUpdateFrom(_, _, _)
DocsToUpdateFrom(operations, bulkResult, i) ==
  IF i > Len(operations) THEN <<>>
  ELSE DocsToCacheOf(operations[i], bulkResult, i)
         \o DocsToUpdateFrom(operations, bulkResult, i + 1)

\* lines 132-222
docsToUpdateInCache(operations, bulkResult) == DocsToUpdateFrom(operations, bulkResult, 1)

\* a JavaScript array seen as an object: its elements, and no other property
ArrayObject(elements) == [elements |-> elements]

\* lines 261-277; docs is an array object
deleteInCache(docs) ==
  IF Len(docs.elements) = 0 THEN <<>>
  ELSE IF Len(docs.elements) = 1 /\ TruthyStr(docs.elements[1], "_id")
  THEN << [name |-> "data-update", type |-> colName, op |-> "remove",
           changes |-> << docs.elements[1]._id >>] >>
  ELSE << [name |-> "data-update", type |-> colName, op |-> "remove"] >>

\* lines 249-259; bulkWrite passes the array of documents as `doc`, and an
\* array object has no isValid property
updateInCache(doc) ==
  IF IsFalse(doc, "isValid")
  THEN deleteInCache(ArrayObject(<< [value |-> doc._id] >>))
  ELSE << [name |-> "data-update", type |-> colName, op |-> "update",
           changes |-> doc.elements] >>

\* lines 131-234: the signals the cached bulkWrite emits once the storage
\* returned bulkResult
CacheSignals(operations, bulkResult, supported) ==
  IF ~supported THEN <<>>
  ELSE LET toUpdate == docsToUpdateInCache(operations, bulkResult)
       IN IF Len(toUpdate) > 0
          THEN updateInCache(ArrayObject(SelectSeq(toUpdate, LAMBDA d : TruthyStr(d, "_id"))))
          ELSE <<>>

(***************************************************************************)
(* upsert.js: after the preparation tasks settled                          *)
(***************************************************************************)
\* faulty variant of AllTasksSettled: the wait ends with the first settled task
AnyTaskSettled(ts) == \E i \in DOMAIN ts : ts[i].pc = "settled"

\* line 140: Promise.allSettled(preparationTasks) resolves
AllTasksSettled(ts) == \A i \in DOMAIN ts : ts[i].pc = "settled"

\* faulty variant of WriteErrorItem: the operation is looked up one position
\* after the one the storage named
WriteErrorItemByBatchPosition(operations, writeError) ==
  LET known == writeError.index + 1 \in DOMAIN operations
      opWithError == operations[writeError.index + 1]
  IN [operationIndex |-> writeError.index,
      identifier |-> IF known THEN OpDoc(opWithError).identifier ELSE "Unknown",
      code |-> writeError.code,
      error |-> writeError.errmsg,
      operationType |-> IF ~known THEN "unknown"
                        ELSE IF IsInsert(opWithError) THEN "insert" ELSE "replace"]
\* lines 171-201: the per-item error of one write error
WriteErrorItem(operations, writeError) ==
  LET known == writeError.index \in DOMAIN operations
      opWithError == operations[writeError.index]
  IN [operationIndex |-> writeError.index,
      identifier |-> IF known THEN OpDoc(opWithError).identifier ELSE "Unknown",
      code |-> writeError.code,
      error |-> writeError.errmsg,
      operationType |-> IF ~known THEN "unknown"
                        ELSE IF IsInsert(opWithError) THEN "insert" ELSE "replace"]

\* faulty variant of writeErrorIndices: the set of failed positions is never
\* filled
writeErrorIndicesNeverFilled(bulkResult) == {}

\* lines 166-173
writeErrorIndices(bulkResult) ==
  {bulkResult.writeErrors[j].index : j \in DOMAIN bulkResult.writeErrors}

\* faulty variant of SuccessfulForEvents: the write error set is not consulted
SuccessfulForEventsUnchecked(operations, errorIndices, kind) ==
  LET keep == SortedSeq({k \in DOMAIN operations : Has(operations[k], kind)})
  IN [j \in DOMAIN keep |-> OpDoc(operations[keep[j]])]

\* lines 206-219: the documents of the operations of one kind that are not in
\* the write error set, in the order of the operations
SuccessfulForEvents(operations, errorIndices, kind) ==
  LET keep == SortedSeq({k \in DOMAIN operations :
                           k \notin errorIndices /\ Has(operations[k], kind)})
  IN [j \in DOMAIN keep |-> OpDoc(operations[keep[j]])]

\* faulty variant of UpsertSignals: 'data-received' is emitted for every
\* committed document
UpsertSignalsPerDocument(operations, bulkResult) ==
  LET inserts == SuccessfulForEvents(operations, writeErrorIndices(bulkResult), "insertOne")
      replaces == SuccessfulForEvents(operations, writeErrorIndices(bulkResult), "replaceOne")
  IN (IF Len(inserts) > 0
        THEN << [name |-> "storage-socket-create", colName |-> colName, docs |-> inserts] >>
        ELSE <<>>)
     \o (IF Len(replaces) > 0
           THEN << [name |-> "storage-socket-update", colName |-> colName, docs |-> replaces] >>
           ELSE <<>>)
     \o [j \in 1..(Len(inserts) + Len(replaces)) |-> [name |-> "data-received"]]

\* faulty variant of UpsertSignals: every committed document is signalled on
\* its own
UpsertSignalsUnbatched(operations, bulkResult) ==
  LET inserts == SuccessfulForEvents(operations, writeErrorIndices(bulkResult), "insertOne")
      replaces == SuccessfulForEvents(operations, writeErrorIndices(bulkResult), "replaceOne")
  IN [j \in DOMAIN inserts |->
        [name |-> "storage-socket-create", colName |-> colName, docs |-> << inserts[j] >>]]
     \o [j \in DOMAIN replaces |->
           [name |-> "storage-socket-update", colName |-> colName, docs |-> << replaces[j] >>]]
     \o (IF bulkResult.insertedCount > 0 \/ bulkResult.modifiedCount > 0
           THEN << [name |-> "data-received"] >> ELSE <<>>)
\* lines 222-238: the signals upsert emits
UpsertSignals(operations, bulkResult) ==
  LET inserts == SuccessfulForEvents(operations, writeErrorIndices(bulkResult), "insertOne")
      replaces == SuccessfulForEvents(operations, writeErrorIndices(bulkResult), "replaceOne")
  IN (IF Len(inserts) > 0
        THEN << [name |-> "storage-socket-create", colName |-> colName, docs |-> inserts] >>
        ELSE <<>>)
     \o (IF Len(replaces) > 0
           THEN << [name |-> "storage-socket-update", colName |-> colName, docs |-> replaces] >>
           ELSE <<>>)
     \o (IF bulkResult.insertedCount > 0 \/ bulkResult.modifiedCount > 0
           THEN << [name |-> "data-received"] >> ELSE <<>>)

\* faulty variant of OverallStatus: the partial success branch is missing
OverallStatusNoPartial(nErrors, insertedCount, replacedCount, nOperations) ==
  IF nErrors > 0 /\ insertedCount = 0 /\ replacedCount = 0 THEN "BAD_REQUEST"
  ELSE "OK"

\* faulty variant of OverallStatus: a batch without committed write is OK
OverallStatusNothingWrittenIsOk(nErrors, insertedCount, replacedCount, nOperations) ==
  IF nErrors > 0 /\ (insertedCount > 0 \/ replacedCount > 0) THEN "MULTI_STATUS"
  ELSE "OK"

\* lines 240-250
OverallStatus(nErrors, insertedCount, replacedCount, nOperations) ==
  IF nErrors > 0 /\ (insertedCount > 0 \/ replacedCount > 0) THEN "MULTI_STATUS"
  ELSE IF nErrors > 0 THEN "BAD_REQUEST"
  ELSE IF insertedCount = 0 /\ replacedCount = 0 /\ nOperations > 0 THEN "OK"
  ELSE "OK"

\* faulty variant of ResponseFields: the write errors are not appended
ResponseFieldsPreCheckOnly(errors, operations, bulkResult) ==
  [insertedCount |-> bulkResult.insertedCount,
   replacedCount |-> bulkResult.modifiedCount,
   matchedCount |-> bulkResult.matchedCount,
   upsertedCount |-> bulkResult.upsertedCount,
   deletedCount |-> 0,
   errors |-> errors]

\* lines 143-150 and 158-202: responseFields once the bulk result is in
ResponseFields(errors, operations, bulkResult) ==
  [insertedCount |-> bulkResult.insertedCount,
   replacedCount |-> bulkResult.modifiedCount,
   matchedCount |-> bulkResult.matchedCount,
   upsertedCount |-> bulkResult.upsertedCount,
   deletedCount |-> 0,
   errors |-> errors \o [j \in DOMAIN bulkResult.writeErrors |->
                           WriteErrorItem(operations, bulkResult.writeErrors[j])]]

\* lines 255-259
BulkDoneResponse(errors, operations, bulkResult) ==
  LET fields == ResponseFields(errors, operations, bulkResult)
  IN sendJSON(OverallStatus(Len(fields.errors), fields.insertedCount,
                            fields.replacedCount, Len(operations)),
              fields)

\* faulty variant of BulkFailedResponse: answered like a pre-processing failure
BulkFailedAsBadRequest(errors, message) ==
  sendJSONStatus("BAD_REQUEST", "Documents failed pre-processing.",
    [errors |-> Append(errors,
                  [error |-> "Bulk write execution failed: " \o message])])

\* lines 261-271: col.storage.bulkWrite rejected
BulkFailedResponse(errors, message) ==
  sendJSONStatus("INTERNAL_ERROR", "STORAGE_ERROR",
    [errors |-> Append(errors,
                  [error |-> "Bulk write execution failed: " \o message])])

\* lines 272-284: no operation was generated
NoOperationsResponse(errors, nDocs) ==
  IF Len(errors) > 0
  THEN sendJSONStatus("BAD_REQUEST", "Documents failed pre-processing.",
                      [errors |-> errors])
  ELSE IF nDocs > 0
  THEN sendJSONStatus("OK", "No operations to perform based on input.", <<>>)
  ELSE sendJSONStatus("BAD_REQUEST", "HTTP_400_BAD_REQUEST_BODY_EMPTY_ARRAY", <<>>)

(***************************************************************************)
(* operation.js: create                                                    *)
(***************************************************************************)
\* req.body is a record: isArray tells an array from a single object, and
\* value holds the elements of the array, or the single object as its one
\* element.
\* _.isEmpty(req.body): an array without elements, an object without fields
isEmpty(body) ==
  IF body.isArray THEN Len(body.value) = 0 ELSE DOMAIN body.value[1] = {}

\* Array.isArray(req.body) ? req.body : [req.body]
DocsOf(body) == IF body.isArray THEN body.value ELSE << body.value[1] >>

(***************************************************************************)
(* The inputs of the model.                                                *)
(***************************************************************************)
\* the fields every document of the model carries
Reading == [date |-> 20, utcOffset |-> 0, device |-> "dev", app |-> "app"]

StoredRecord(identifier, id) ==
  [date |-> 20, utcOffset |-> 0, device |-> "dev", app |-> "app",
   identifier |-> identifier, srvCreated |-> 5, srvModified |-> 5,
   subject |-> "bob", _id |-> id]

\* the collection before the request: a plain record, a read-only record and
\* a soft-deleted record.  The soft-deleted record was created before the
\* server stamped creation times: it has no srvCreated.
StoredA == StoredRecord("a", "oid-a")
StoredR == With(StoredRecord("r", "oid-r"), "isReadOnly", TRUE)
StoredD ==
  LET deleted == With(StoredRecord("d", "oid-d"), "isValid", FALSE)
  IN [f \in DOMAIN deleted \ {"srvCreated"} |-> deleted[f]]
InitialStorage == {StoredA, StoredR, StoredD}

\* documents a caller may send
DocNew == With(Reading, "identifier", "n")
DocNoIdentifier == Reading
DocA == With(Reading, "identifier", "a")
DocAApp == With(With(DocA, "app", "other"), "utcOffset", 1)
DocAModified == With(DocA, "srvModified", 7)
DocASubject == With(DocA, "subject", "eve")
DocAId == With(DocA, "_id", "oid-a")
DocR == With(With(Reading, "identifier", "r"), "app", "other")
DocD == With(With(With(Reading, "identifier", "d"), "app", "other"), "isValid", FALSE)

DocInputs ==
  {DocNew, DocNoIdentifier, DocA, DocAApp, DocAModified, DocASubject, DocAId, DocR, DocD}

RECURSIVE SeqsUpTo(_, _)
SeqsUpTo(S, n) ==
  IF n = 0 THEN {<<>>}
  ELSE LET shorter == SeqsUpTo(S, n - 1)
       IN shorter \cup {Append(q, x) : q \in {r \in shorter : Len(r) = n - 1}, x \in S}

\* req.body: an array of documents, or a single object
Bodies ==
  {[isArray |-> TRUE, value |-> q] : q \in SeqsUpTo(DocInputs, MaxDocs)}
    \cup {[isArray |-> FALSE, value |-> << d >>] : d \in DocInputs \cup {<<>>}}

\* the authenticated caller: the subject name ("" for none) and what the
\* authorization check answers for create and for update
Callers ==
  [name : {"", "bob", "eve"}, mayCreate : BOOLEAN, mayUpdate : BOOLEAN]

\* the If-Unmodified-Since header: <<>> when the request has none
Headers == {<<>>, <<6>>}

\* operations another caller of the storage may hand to bulkWrite directly
Prepared(doc) == With(With(doc, "srvModified", 9), "srvCreated", 9)
InsertOp(doc) == [insertOne |-> [document |-> Prepared(doc)]]
ReplaceOp(doc) ==
  [replaceOne |-> [filter |-> identifyingFilter(doc.identifier),
                   replacement |-> Prepared(doc), upsert |-> FALSE]]
OpInputs ==
  {InsertOp(DocNew), InsertOp(With(DocNew, "isValid", FALSE)), InsertOp(DocA),
   ReplaceOp(DocA), ReplaceOp(DocAId), ReplaceOp(DocD)}

(***************************************************************************)
(* State.                                                                  *)
(***************************************************************************)
VARIABLES
  req,              \* the request: body and If-Unmodified-Since header
  auth,             \* opCtx.auth, as an element of Callers
  cacheSupported,   \* what cacheSupported() answered: <<>> until it is called
  currentTime,      \* now.getTime()
  storage,          \* the stored records of the collection
  pc,               \* where the request handler is
  tasks,            \* the preparation tasks, one per document
  operations,       \* the write intents, in the order they were pushed
  opSrc,            \* history: the batch index each write intent came from
  processingErrors, \* the pre-check errors
  bulkCalls,        \* history: the calls of storage.bulkWrite and their outcome
  lookups,          \* history: number of calls of storage.findOneFilter
  bus,              \* the signals emitted on ctx.bus, in order
  responses,        \* the bodies sent on res, in order
  rival             \* a second request with the same body, handled by the same code

vars == << req, auth, cacheSupported, currentTime, storage, pc, tasks, operations,
           opSrc, processingErrors, bulkCalls, lookups, bus, responses, rival >>

docs == DocsOf(req.body)

\* no second request has arrived
RivalIdle == [pc |-> "idle"]

Idle ==
  /\ rival = RivalIdle
  /\ currentTime = 9
  /\ storage = InitialStorage
  /\ tasks = <<>>
  /\ opSrc = <<>>
  /\ processingErrors = <<>>
  /\ bulkCalls = <<>>
  /\ lookups = 0
  /\ bus = <<>>
  /\ responses = <<>>

\* index.js lines 243-247: cacheSupported() is called when the bulk write has
\* returned (line 131); it tells whether ctx.cache holds an array for the
\* collection, and it answers the same whenever it is called again
NotAsked == <<>>
CacheAnswers(answered) == IF answered = NotAsked THEN BOOLEAN ELSE {answered[1]}

\* a request arrives at the operation created by createOperation
Init ==
  /\ req \in [body : Bodies, ifUnmodifiedSince : Headers]
  /\ auth \in Callers
  /\ cacheSupported = NotAsked
  /\ pc = "create"
  /\ operations = <<>>
  /\ Idle

\* another caller hands operations to MongoCachedCollection.bulkWrite
InitDirect ==
  /\ req = [body |-> [isArray |-> TRUE, value |-> <<>>], ifUnmodifiedSince |-> <<>>]
  /\ auth = [name |-> "", mayCreate |-> TRUE, mayUpdate |-> TRUE]
  /\ cacheSupported = NotAsked
  /\ pc = "direct"
  /\ operations \in SeqsUpTo(OpInputs, MaxOps) \ {<<>>}
  /\ Idle

(***************************************************************************)
(* Actions: operation.js and upsert.js                                     *)
(***************************************************************************)
Respond(body) == responses' = Append(responses, body)

\* faulty variant of CreateRejects: create hands every body to upsert
CreateRejectsNothing(body) == FALSE

\* operation.js lines 22-26: create answers itself and never calls upsert
CreateRejects(body) == isEmpty(body) \/ Len(DocsOf(body)) = 0

\* operation.js lines 13-29 (after security.authenticate resolved)
Create ==
  /\ pc = "create"
  /\ IF CreateRejects(req.body)
     THEN /\ Respond(sendJSONStatus("BAD_REQUEST",
                       IF isEmpty(req.body) THEN "HTTP_400_BAD_REQUEST_BODY"
                       ELSE "HTTP_400_BAD_REQUEST_BODY_EMPTY_ARRAY", <<>>))
          /\ pc' = "done"
     ELSE /\ pc' = "upsert"
          /\ UNCHANGED responses
  /\ UNCHANGED << rival, req, auth, cacheSupported, currentTime, storage, tasks, operations,
                  opSrc, processingErrors, bulkCalls, lookups, bus >>

\* upsert.js line 24 refuses: the rejection leaves upsert and create and is
\* caught by operation.js lines 49-53
UpsertDenied ==
  /\ pc = "upsert"
  /\ ~auth.mayCreate
  /\ Respond(sendJSONStatus("INTERNAL_ERROR", "STORAGE_ERROR", <<>>))
  /\ pc' = "done"
  /\ UNCHANGED << rival, req, auth, cacheSupported, currentTime, storage, tasks, operations,
                  opSrc, processingErrors, bulkCalls, lookups, bus >>

\* upsert.js lines 26-52 and 140: docs.map runs every task up to its first
\* await, the call of findOneFilter; then upsert awaits Promise.allSettled
SpawnTasks ==
  /\ pc = "upsert"
  /\ auth.mayCreate
  /\ tasks' = [i \in DOMAIN docs |->
                 [pc |-> "findOneFilter",
                  docItem |-> PrepareSync(docs[i], auth.name),
                  storageDoc |-> NoDoc,
                  operationType |-> "unknown"]]
  /\ lookups' = lookups + Len(docs)
  /\ pc' = "allSettled"
  /\ UNCHANGED << rival, req, auth, cacheSupported, currentTime, storage, operations, opSrc,
                  processingErrors, bulkCalls, bus, responses >>

\* lines 52-57 and 92-93: the lookup resolved; the task awaits demandPermission
FindOneReturns(i) ==
  /\ i \in DOMAIN tasks
  /\ tasks[i].pc = "findOneFilter"
  /\ LET existingResults ==
           findOneFilter(identifyingFilter(tasks[i].docItem.identifier), storage)
         found == Len(existingResults) > 0
     IN tasks' = [tasks EXCEPT ![i] =
                    [pc |-> "demandPermission",
                     docItem |-> @.docItem,
                     storageDoc |-> IF found THEN existingResults[1] ELSE NoDoc,
                     operationType |-> IF found THEN "update" ELSE "create"]]
  /\ UNCHANGED << rival, req, auth, cacheSupported, currentTime, storage, pc, operations, opSrc,
                  processingErrors, bulkCalls, lookups, bus, responses >>

\* line 52 rejects (the storage failed the read): lines 120-135
FindOneRejects(i) ==
  /\ i \in DOMAIN tasks
  /\ tasks[i].pc = "findOneFilter"
  /\ processingErrors' =
       CatchPreparation(processingErrors, i, tasks[i].docItem, docs[i],
                        [message |-> "storage read failed"], tasks[i].operationType)
  /\ tasks' = [tasks EXCEPT ![i].pc = "settled"]
  /\ UNCHANGED << rival, req, auth, cacheSupported, currentTime, storage, pc, operations, opSrc,
                  bulkCalls, lookups, bus, responses >>

\* what lines 57-111 end with once demandPermission settled
Prepared1(t) ==
  IF ~(IF t.operationType = "update" THEN auth.mayUpdate ELSE auth.mayCreate)
  THEN [thrown |-> Forbidden]
  ELSE IF t.storageDoc # NoDoc
  THEN PrepareReplace(t.docItem, t.storageDoc, auth.name, req.ifUnmodifiedSince, currentTime)
  ELSE PrepareInsert(t.docItem, auth.name, currentTime)

\* lines 57-136: the rest of the task, which pushes its intent or its error
PermissionReturns(i) ==
  /\ i \in DOMAIN tasks
  /\ tasks[i].pc = "demandPermission"
  /\ LET r == Prepared1(tasks[i])
     IN IF Has(r, "intent")
        THEN /\ operations' = Append(operations, r.intent)
             /\ opSrc' = Append(opSrc, i)
             /\ UNCHANGED processingErrors
        ELSE /\ processingErrors' =
                  CatchPreparation(processingErrors, i, tasks[i].docItem, docs[i],
                                   r.thrown, tasks[i].operationType)
             /\ UNCHANGED << operations, opSrc >>
  /\ tasks' = [tasks EXCEPT ![i].pc = "settled"]
  /\ UNCHANGED << rival, req, auth, cacheSupported, currentTime, storage, pc, bulkCalls,
                  lookups, bus, responses >>

\* faulty variant of AllSettled: bulkWrite is called whether or not there are
\* operations
AllSettledAlwaysWrites ==
  /\ pc = "allSettled"
  /\ AllTasksSettled(tasks)
  /\ bulkCalls' = Append(bulkCalls,
        [operations |-> operations, ordered |-> FALSE, outcome |-> "pending"])
  /\ pc' = "bulkWrite"
  /\ UNCHANGED << rival, req, auth, cacheSupported, currentTime, storage, tasks,
                  operations, opSrc, processingErrors, lookups, bus, responses >>

\* faulty variant of AllSettled: the branches for a batch without operations
\* are missing, and upsert returns without an answer
AllSettledSilentWithoutOperations ==
  /\ pc = "allSettled"
  /\ AllTasksSettled(tasks)
  /\ IF Len(operations) > 0
     THEN /\ bulkCalls' = Append(bulkCalls,
                [operations |-> operations, ordered |-> FALSE, outcome |-> "pending"])
          /\ pc' = "bulkWrite"
     ELSE /\ pc' = "done"
          /\ UNCHANGED bulkCalls
  /\ UNCHANGED << rival, req, auth, cacheSupported, currentTime, storage, tasks, operations,
                  opSrc, processingErrors, lookups, bus, responses >>
\* lines 140-156 and 272-284: all tasks settled; upsert calls bulkWrite when
\* there are operations and answers at once when there are none
AllSettled ==
  /\ pc = "allSettled"
  /\ AllTasksSettled(tasks)
  /\ IF Len(operations) > 0
     THEN /\ bulkCalls' = Append(bulkCalls,
                [operations |-> operations, ordered |-> FALSE, outcome |-> "pending"])
          /\ pc' = "bulkWrite"
          /\ UNCHANGED responses
     ELSE /\ Respond(NoOperationsResponse(processingErrors, Len(docs)))
          /\ pc' = "done"
          /\ UNCHANGED bulkCalls
  /\ UNCHANGED << rival, req, auth, cacheSupported, currentTime, storage, tasks, operations,
                  opSrc, processingErrors, lookups, bus >>

\* the storage call rejects (index.js line 129 throws through): upsert.js
\* lines 261-271
BulkWriteThrows ==
  /\ pc = "bulkWrite"
  /\ bulkCalls' = [bulkCalls EXCEPT ![Len(bulkCalls)].outcome = "thrown"]
  /\ Respond(BulkFailedResponse(processingErrors, "connection lost"))
  /\ pc' = "done"
  /\ UNCHANGED << rival, req, auth, cacheSupported, currentTime, storage, tasks, operations,
                  opSrc, processingErrors, lookups, bus >>

\* the storage call resolves: index.js lines 129-236, then upsert.js lines
\* 158-259.  failed is the set of positions the storage refused.
BulkWriteReturns ==
  /\ pc = "bulkWrite"
  /\ \E failed \in SUBSET DOMAIN operations, supported \in CacheAnswers(cacheSupported) :
       /\ DuplicateKey(operations, storage) \subseteq failed
       /\ LET bulkResult == BulkResult(operations, failed)
          IN /\ storage' = ApplyBulk(storage, operations, failed)
             /\ bulkCalls' = [bulkCalls EXCEPT ![Len(bulkCalls)] =
                                [operations |-> operations, ordered |-> FALSE,
                                 outcome |-> "returned", result |-> bulkResult]]
             /\ cacheSupported' = << supported >>
             /\ bus' = bus \o CacheSignals(operations, bulkResult, supported)
                          \o UpsertSignals(operations, bulkResult)
             /\ Respond(BulkDoneResponse(processingErrors, operations, bulkResult))
  /\ pc' = "done"
  /\ UNCHANGED << rival, req, auth, currentTime, tasks, operations, opSrc,
                  processingErrors, lookups >>

(***************************************************************************)
(* Actions: MongoCachedCollection.bulkWrite called by another caller       *)
(***************************************************************************)
DirectBulkThrows ==
  /\ pc = "direct"
  /\ bulkCalls' = Append(bulkCalls,
        [operations |-> operations, ordered |-> FALSE, outcome |-> "thrown"])
  /\ pc' = "directDone"
  /\ UNCHANGED << rival, req, auth, cacheSupported, currentTime, storage, tasks, operations,
                  opSrc, processingErrors, lookups, bus, responses >>

DirectBulkReturns ==
  /\ pc = "direct"
  /\ \E failed \in SUBSET DOMAIN operations, supported \in CacheAnswers(cacheSupported) :
       /\ DuplicateKey(operations, storage) \subseteq failed
       /\ LET bulkResult == BulkResult(operations, failed)
          IN /\ storage' = ApplyBulk(storage, operations, failed)
             /\ bulkCalls' = Append(bulkCalls,
                   [operations |-> operations, ordered |-> FALSE,
                    outcome |-> "returned", result |-> bulkResult])
             /\ cacheSupported' = << supported >>
             /\ bus' = bus \o CacheSignals(operations, bulkResult, supported)
  /\ pc' = "directDone"
  /\ UNCHANGED << rival, req, auth, currentTime, tasks, operations, opSrc,
                  processingErrors, lookups, responses >>

(***************************************************************************)
(* Actions: a second request.  It carries the body of the first, comes     *)
(* from the same caller and runs the same create and upsert on the same    *)
(* storage, at any moment: after the first request was answered or while   *)
(* it is in flight.  Its body holds one document, so it has one            *)
(* preparation task; its locals are the fields of `rival`.                 *)
(***************************************************************************)
\* requests whose body is an array of one document
InitTwo ==
  /\ Init
  /\ req.body.isArray
  /\ Len(req.body.value) = 1
  /\ req.body.value[1] \in {DocNew, DocNoIdentifier, DocA}
  /\ req.ifUnmodifiedSince = <<>>

\* operation.js lines 13-29 and upsert.js lines 24-52: the second request
\* passes the body check and the create permission and its task calls
\* findOneFilter.  afterFirst tells whether the first request was answered
\* before the second arrived.
RivalArrives ==
  /\ rival.pc = "idle"
  /\ Len(docs) = 1
  /\ ~CreateRejects(req.body)
  /\ auth.mayCreate
  /\ rival' = [pc |-> "findOneFilter",
               afterFirst |-> (pc = "done"),
               docItem |-> PrepareSync(docs[1], auth.name),
               storageDoc |-> NoDoc,
               operationType |-> "unknown",
               operations |-> <<>>,
               processingErrors |-> <<>>,
               bus |-> <<>>,
               bulkThrown |-> FALSE,
               responses |-> <<>>]
  /\ UNCHANGED << req, auth, cacheSupported, currentTime, storage, pc, tasks, operations,
                  opSrc, processingErrors, bulkCalls, lookups, bus, responses >>

\* upsert.js lines 52-57 and 92-93: the lookup of the second request resolves
RivalFindOneReturns ==
  /\ rival.pc = "findOneFilter"
  /\ LET existingResults ==
           findOneFilter(identifyingFilter(rival.docItem.identifier), storage)
         found == Len(existingResults) > 0
     IN rival' = [rival EXCEPT
                    !.pc = "demandPermission",
                    !.storageDoc = IF found THEN existingResults[1] ELSE NoDoc,
                    !.operationType = IF found THEN "update" ELSE "create"]
  /\ UNCHANGED << req, auth, cacheSupported, currentTime, storage, pc, tasks, operations,
                  opSrc, processingErrors, bulkCalls, lookups, bus, responses >>

\* upsert.js lines 57-156 and 272-284: demandPermission settles, the task
\* pushes its intent or its error and settles, Promise.allSettled resolves
\* and upsert calls bulkWrite or answers (no storage call lies in between)
RivalPermissionReturns ==
  /\ rival.pc = "demandPermission"
  /\ LET r == Prepared1(rival)
     IN IF Has(r, "intent")
        THEN rival' = [rival EXCEPT !.pc = "bulkWrite",
                                    !.operations = << r.intent >>]
        ELSE LET errors == CatchPreparation(<<>>, 1, rival.docItem, docs[1],
                                            r.thrown, rival.operationType)
             IN rival' = [rival EXCEPT
                            !.pc = "done",
                            !.processingErrors = errors,
                            !.responses = << NoOperationsResponse(errors, Len(docs)) >>]
  /\ UNCHANGED << req, auth, cacheSupported, currentTime, storage, pc, tasks, operations,
                  opSrc, processingErrors, bulkCalls, lookups, bus, responses >>

\* the bulk write of the second request resolves: index.js lines 129-236,
\* then upsert.js lines 158-259
RivalBulkWriteReturns ==
  /\ rival.pc = "bulkWrite"
  /\ \E failed \in SUBSET DOMAIN rival.operations, supported \in CacheAnswers(cacheSupported) :
       /\ DuplicateKey(rival.operations, storage) \subseteq failed
       /\ LET bulkResult == BulkResult(rival.operations, failed)
          IN /\ storage' = ApplyBulk(storage, rival.operations, failed)
             /\ cacheSupported' = << supported >>
             /\ rival' = [rival EXCEPT
                   !.pc = "done",
                   !.bus = CacheSignals(rival.operations, bulkResult, supported)
                             \o UpsertSignals(rival.operations, bulkResult),
                   !.responses = << BulkDoneResponse(rival.processingErrors,
                                                     rival.operations, bulkResult) >>]
  /\ UNCHANGED << req, auth, currentTime, pc, tasks, operations,
                  opSrc, processingErrors, bulkCalls, lookups, bus, responses >>

\* the bulk write of the second request rejects: upsert.js lines 261-271
RivalBulkWriteThrows ==
  /\ rival.pc = "bulkWrite"
  /\ rival' = [rival EXCEPT
        !.pc = "done",
        !.bulkThrown = TRUE,
        !.responses = << BulkFailedResponse(rival.processingErrors, "connection lost") >>]
  /\ UNCHANGED << req, auth, cacheSupported, currentTime, storage, pc, tasks, operations,
                  opSrc, processingErrors, bulkCalls, lookups, bus, responses >>

(***************************************************************************)
(* Specifications.                                                         *)
(***************************************************************************)
Next ==
  \/ Create
  \/ UpsertDenied
  \/ SpawnTasks
  \/ \E i \in 1..MaxDocs : FindOneReturns(i)
  \/ \E i \in 1..MaxDocs : FindOneRejects(i)
  \/ \E i \in 1..MaxDocs : PermissionReturns(i)
  \/ AllSettled
  \/ BulkWriteThrows
  \/ BulkWriteReturns

\* one request through create and upsert
Spec == Init /\ [][Next]_vars

NextAll ==
  \/ Next
  \/ DirectBulkThrows
  \/ DirectBulkReturns

\* the request, or a direct call of the cached collection's bulkWrite
SpecAll == (Init \/ InitDirect) /\ [][NextAll]_vars

NextTwo ==
  \/ Next
  \/ RivalArrives
  \/ RivalFindOneReturns
  \/ RivalPermissionReturns
  \/ RivalBulkWriteReturns
  \/ RivalBulkWriteThrows

\* two requests with the same one-document body, in sequence or in parallel
SpecTwo == InitTwo /\ [][NextTwo]_vars

(***************************************************************************)
(* Vocabulary of the properties.                                           *)
(***************************************************************************)
\* upsert ran its preparation tasks for a non-empty batch and all settled
PreparationOver ==
  /\ tasks # <<>>
  /\ \A i \in DOMAIN tasks : tasks[i].pc = "settled"

\* positions of the write intents and of the pre-check errors of document i
IntentsOf(i) == {k \in DOMAIN opSrc : opSrc[k] = i}
PreCheckErrorsOf(i) == {k \in DOMAIN processingErrors : processingErrors[k].index = i}

\* the bulk call of the run, when one was made
BulkCalled == bulkCalls # <<>>
TheCall == bulkCalls[1]
BulkReturned == BulkCalled /\ TheCall.outcome = "returned"
BulkThrown == BulkCalled /\ TheCall.outcome = "thrown"

\* positions of the call the bulk result reports a write error for, and the
\* positions it confirmed as committed
FailedAtStorage ==
  {TheCall.result.writeErrors[j].index : j \in DOMAIN TheCall.result.writeErrors}
Committed == DOMAIN TheCall.operations \ FailedAtStorage

Answered == Len(responses) > 0
Answer == responses[1]

SignalsNamed(n) == {e \in DOMAIN bus : bus[e].name = n}

WithoutId(d) == [g \in DOMAIN d \ {"_id"} |-> d[g]]

(***************************************************************************)
(* C1.  Once all preparation tasks of a non-empty batch have settled,      *)
(* every input document has produced exactly one of: one write intent in   *)
(* `operations`, or one pre-check error in `processingErrors` (before that *)
(* never both); and in the answer for the batch the committed writes plus  *)
(* the intents that failed at the storage plus the pre-check errors add up *)
(* to the number of input documents.                                       *)
(***************************************************************************)
C1_ExactlyOneOutcome ==
  /\ \A i \in DOMAIN tasks :
       /\ Cardinality(IntentsOf(i)) + Cardinality(PreCheckErrorsOf(i)) <= 1
       /\ tasks[i].pc = "settled" =>
            Cardinality(IntentsOf(i)) + Cardinality(PreCheckErrorsOf(i)) = 1
  /\ PreparationOver =>
       /\ Len(operations) = Len(opSrc)
       /\ Len(operations) + Len(processingErrors) = Len(docs)
  /\ (PreparationOver /\ BulkReturned /\ Answered) =>
       /\ Cardinality(Committed) + Cardinality(FailedAtStorage)
            + Len(processingErrors) = Len(docs)
       /\ Answer.insertedCount + Answer.replacedCount + Len(Answer.errors) = Len(docs)

\* a batch of two: one document became a write intent that committed, the
\* other a pre-check error
C1_Witness ==
  /\ pc = "done"
  /\ PreparationOver
  /\ Len(docs) = 2
  /\ Len(operations) = 1
  /\ Len(processingErrors) = 1
  /\ BulkReturned
  /\ Committed = {1}

(***************************************************************************)
(* C2.  No signal is emitted for a document that did not commit: every     *)
(* document in a 'storage-socket-create' or 'storage-socket-update'        *)
(* payload of upsert, and every document in a cache 'data-update' payload  *)
(* of MongoCachedCollection.bulkWrite, is the document of a write intent   *)
(* (of the matching kind) that the bulk result confirmed as committed; no  *)
(* signal at all is emitted unless a bulk call returned.                   *)
(***************************************************************************)
C2_SignalsOnlyForCommitted ==
  /\ bus # <<>> => BulkReturned
  /\ \A e \in DOMAIN bus :
       /\ bus[e].name = "storage-socket-create" =>
            \A j \in DOMAIN bus[e].docs :
              \E k \in Committed : /\ IsInsert(TheCall.operations[k])
                                   /\ bus[e].docs[j] = OpDoc(TheCall.operations[k])
       /\ bus[e].name = "storage-socket-update" =>
            \A j \in DOMAIN bus[e].docs :
              \E k \in Committed : /\ IsReplace(TheCall.operations[k])
                                   /\ bus[e].docs[j] = OpDoc(TheCall.operations[k])
       /\ (bus[e].name = "data-update" /\ Has(bus[e], "changes")) =>
            \A j \in DOMAIN bus[e].changes :
              \E k \in Committed :
                WithoutId(bus[e].changes[j]) = WithoutId(OpDoc(TheCall.operations[k]))
       /\ bus[e].name = "data-received" => Committed # {}

\* one intent of a call was refused by the storage, another committed and
\* was signalled by upsert and by the cache
C2_Witness ==
  /\ BulkReturned
  /\ FailedAtStorage # {}
  /\ SignalsNamed("storage-socket-update") # {}
  /\ \E e \in SignalsNamed("data-update") : Len(bus[e].changes) > 0

(***************************************************************************)
(* C3.  No cross-document blocking: a preparation task never fails past    *)
(* its boundary; a document that fails preparation becomes a per-item      *)
(* error, and every sibling of the batch is still prepared and, when it    *)
(* passes, its write intent is part of the operations of the bulk write.   *)
(***************************************************************************)
C3_NoCrossDocumentBlocking ==
  (tasks # <<>> /\ pc \in {"bulkWrite", "done"}) =>
    /\ \A i \in DOMAIN tasks : tasks[i].pc = "settled"
    /\ \A i \in DOMAIN tasks :
         \/ PreCheckErrorsOf(i) # {}
         \/ /\ BulkCalled
            /\ \E k \in IntentsOf(i) :
                 /\ k \in DOMAIN TheCall.operations
                 /\ TheCall.operations[k] = operations[k]
                 /\ [intent |-> operations[k]] = Prepared1(tasks[i])

\* the first document of a batch of two failed preparation and the second
\* was written
C3_Witness ==
  /\ pc = "done"
  /\ Len(docs) = 2
  /\ PreCheckErrorsOf(1) # {}
  /\ IntentsOf(2) # {}
  /\ BulkReturned
  /\ Committed = {1}

(***************************************************************************)
(* C4.  When the bulk write call itself fails after intents were prepared, *)
(* the batch is answered with status INTERNAL_ERROR, no signal is emitted  *)
(* ('storage-socket-create', 'storage-socket-update', 'data-received',     *)
(* cache 'data-update'), and the answer reports no inserted or replaced    *)
(* counts.                                                                 *)
(***************************************************************************)
C4_BulkFailureIsBatchFailure ==
  BulkThrown =>
    /\ pc = "done"
    /\ Len(responses) = 1
    /\ Answer.status = "INTERNAL_ERROR"
    /\ Has(Answer, "insertedCount") => Answer.insertedCount = 0
    /\ Has(Answer, "replacedCount") => Answer.replacedCount = 0
    /\ bus = <<>>
    /\ storage = InitialStorage

\* two intents were prepared and the call failed
C4_Witness ==
  /\ BulkThrown
  /\ Len(TheCall.operations) = 2
  /\ pc = "done"

(***************************************************************************)
(* C5.  Partial success is reported as MULTI_STATUS: when the bulk call    *)
(* succeeded, at least one write committed and at least one error exists   *)
(* (pre-check error or storage write error), the status is MULTI_STATUS    *)
(* and the body carries the counts of the bulk result and the full error   *)
(* list: all pre-check errors, then one entry per storage write error.     *)
(***************************************************************************)
C5_PartialSuccessIsMultiStatus ==
  (pc = "done" /\ BulkReturned /\ Committed # {}
     /\ Len(processingErrors) + Cardinality(FailedAtStorage) > 0) =>
    /\ Len(responses) = 1
    /\ Answer.status = "MULTI_STATUS"
    /\ Answer.insertedCount = TheCall.result.insertedCount
    /\ Answer.replacedCount = TheCall.result.modifiedCount
    /\ Answer.insertedCount + Answer.replacedCount = Cardinality(Committed)
    /\ Len(Answer.errors) = Len(processingErrors) + Cardinality(FailedAtStorage)
    /\ SubSeq(Answer.errors, 1, Len(processingErrors)) = processingErrors
    /\ \A k \in FailedAtStorage :
         \E j \in DOMAIN Answer.errors :
           /\ j > Len(processingErrors)
           /\ Answer.errors[j].operationIndex = k

\* one write committed and the storage refused the other
C5_Witness ==
  /\ pc = "done"
  /\ BulkReturned
  /\ Cardinality(Committed) = 1
  /\ Cardinality(FailedAtStorage) = 1
  /\ Answer.status = "MULTI_STATUS"

(***************************************************************************)
(* C6.  Cache fidelity: for every committed write intent (insert or        *)
(* replace) MongoCachedCollection.bulkWrite emits a cache update whose     *)
(* payload contains the intent's document augmented with the id the        *)
(* database assigned (insertedIds[i] for an insert, the stored record's id *)
(* for a replace).  Stated for a collection whose cache is supported.      *)
(***************************************************************************)
\* the id the database holds for the document written at position k
DatabaseId(k) ==
  LET op == TheCall.operations[k]
  IN IF IsInsert(op)
     THEN LET j == CHOOSE j \in DOMAIN TheCall.result.insertedIds :
                     TheCall.result.insertedIds[j].index = k
          IN TheCall.result.insertedIds[j]._id
     ELSE LET old == CHOOSE r \in InitialStorage :
                       r.identifier = op.replaceOne.filter.identifier
          IN old._id

C6_CacheFidelity ==
  (BulkReturned /\ cacheSupported = << TRUE >>) =>
    \A k \in Committed :
      \E e \in SignalsNamed("data-update") :
        /\ bus[e].op = "update"
        /\ \E j \in DOMAIN bus[e].changes :
             bus[e].changes[j] = With(OpDoc(TheCall.operations[k]), "_id", DatabaseId(k))

(***************************************************************************)
(* C7.  A batch of n >= 1 documents that are all new, valid, authorized    *)
(* and carry pairwise distinct identifiers is answered with status OK,     *)
(* insertedCount = n, replacedCount = 0 and an empty error list.           *)
(***************************************************************************)
StoredIdentifiers == {r.identifier : r \in InitialStorage}

NewValidDoc(d) ==
  /\ resolveIdentifier(d).identifier \notin StoredIdentifiers
  /\ ~IsNullOrWhitespace(resolveIdentifier(d).identifier)
  /\ validateSingleDoc(resolveIdentifier(d), FALSE) = Ok

C7_AllNewBatchIsOk ==
  (/\ pc = "done"
   /\ tasks # <<>>
   /\ auth.mayCreate
   /\ \A i \in DOMAIN docs : NewValidDoc(docs[i])
   /\ \A i, j \in DOMAIN docs :
        i # j => resolveIdentifier(docs[i]).identifier # resolveIdentifier(docs[j]).identifier
   /\ \A i \in DOMAIN tasks : tasks[i].operationType = "create"
   /\ ~BulkThrown) =>
    /\ Answer.status = "OK"
    /\ Has(Answer, "insertedCount")
    /\ Answer.insertedCount = Len(docs)
    /\ Answer.replacedCount = 0
    /\ Answer.errors = <<>>

(***************************************************************************)
(* C8.  A document classified REPLACE whose stored record is flagged       *)
(* read-only produces no write intent and exactly one per-item error with  *)
(* httpStatus 422 (UNPROCESSABLE_ENTITY); in a batch of two in which the   *)
(* other document is a valid new document, the answer is MULTI_STATUS with *)
(* insertedCount = 1 and errors = [{httpStatus: 422}].  Stated for a       *)
(* caller who holds the create and update permissions.                     *)
(***************************************************************************)
ReadOnlyReplace(i) ==
  /\ tasks[i].pc = "settled"
  /\ tasks[i].operationType = "update"
  /\ isReadOnlyDoc(tasks[i].storageDoc)

C8_ReadOnlyIs422 ==
  (auth.mayCreate /\ auth.mayUpdate) =>
    /\ \A i \in DOMAIN tasks :
         ReadOnlyReplace(i) =>
           /\ IntentsOf(i) = {}
           /\ Cardinality(PreCheckErrorsOf(i)) = 1
           /\ \A k \in PreCheckErrorsOf(i) :
                processingErrors[k].httpStatus = "UNPROCESSABLE_ENTITY"
    /\ (/\ pc = "done"
        /\ Len(tasks) = 2
        /\ \E i, j \in DOMAIN tasks :
             /\ i # j
             /\ ReadOnlyReplace(i)
             /\ NewValidDoc(docs[j])
             /\ tasks[j].operationType = "create"
        /\ ~BulkThrown) =>
         /\ Answer.status = "MULTI_STATUS"
         /\ Has(Answer, "insertedCount")
         /\ Answer.insertedCount = 1
         /\ Len(Answer.errors) = 1
         /\ Answer.errors[1].httpStatus = "UNPROCESSABLE_ENTITY"

(***************************************************************************)
(* C9.  An empty input array is rejected with status BAD_REQUEST before    *)
(* any storage call: create answers BAD_REQUEST itself, upsert is never    *)
(* entered, findOneFilter and bulkWrite are never invoked, no preparation  *)
(* task is spawned and no signal is emitted.                               *)
(***************************************************************************)
EmptyArrayBody == req.body.isArray /\ Len(req.body.value) = 0

C9_EmptyArrayRejectedFirst ==
  EmptyArrayBody =>
    /\ pc \in {"create", "done"}
    /\ lookups = 0
    /\ bulkCalls = <<>>
    /\ tasks = <<>>
    /\ bus = <<>>
    /\ storage = InitialStorage
    /\ pc = "done" => /\ Len(responses) = 1
                      /\ Answer.status = "BAD_REQUEST"

\* the empty array was answered
C9_Witness ==
  /\ EmptyArrayBody
  /\ pc = "done"
  /\ Len(responses) = 1
  /\ Answer.status = "BAD_REQUEST"

(***************************************************************************)
(* C10.  Immutability enforcement: for every REPLACE attempt in which the  *)
(* incoming document defines a listed immutable field (other than          *)
(* identifier, which is exempt in a dedup-driven replace) with a value     *)
(* different from the stored record's, the stored record being neither     *)
(* read-only nor soft-deleted, the outcome is one BAD_REQUEST per-item     *)
(* error whose message names the first such field, and no write intent.    *)
(* Stated for a caller who holds the update permission.                    *)
(***************************************************************************)
\* the immutable fields other than identifier, in the order of the list
ListedImmutable ==
  << "date", "utcOffset", "eventType", "device", "app",
     "srvCreated", "subject", "srvModified", "modifiedBy", "isValid" >>

\* document d defines the field with a value other than the stored one
Differs(d, stored, field) ==
  Has(d, field) /\ (~Has(stored, field) \/ d[field] # stored[field])

ChangedFields(d, stored) ==
  {k \in DOMAIN ListedImmutable : Differs(d, stored, ListedImmutable[k])}

FirstChanged(d, stored) ==
  ListedImmutable[CHOOSE k \in ChangedFields(d, stored) :
                    \A m \in ChangedFields(d, stored) : k <= m]

\* a settled REPLACE attempt on a stored record that is neither read-only
\* nor soft-deleted
OpenReplaceAttempt(i) ==
  /\ tasks[i].pc = "settled"
  /\ tasks[i].operationType = "update"
  /\ ~isReadOnlyDoc(tasks[i].storageDoc)
  /\ ~IsFalse(tasks[i].storageDoc, "isValid")

RejectedNaming(i, field) ==
  /\ IntentsOf(i) = {}
  /\ Cardinality(PreCheckErrorsOf(i)) = 1
  /\ \A k \in PreCheckErrorsOf(i) :
       /\ processingErrors[k].httpStatus = "BAD_REQUEST"
       /\ processingErrors[k].error = "HTTP_400_IMMUTABLE_FIELD:" \o field

C10_ImmutabilityEnforced ==
  \A i \in DOMAIN tasks :
    (/\ OpenReplaceAttempt(i)
     /\ auth.mayUpdate
     /\ ChangedFields(docs[i], tasks[i].storageDoc) # {}) =>
      RejectedNaming(i, FirstChanged(docs[i], tasks[i].storageDoc))

\* What the code enforces instead: the fields compared are those of the
\* prepared document, the incoming document with the caller's subject name
\* (if the caller has one) already stamped onto `subject`.
PreparedDocumentImmutability ==
  \A i \in DOMAIN tasks :
    (/\ OpenReplaceAttempt(i)
     /\ auth.mayUpdate
     /\ ChangedFields(StampSubject(resolveIdentifier(docs[i]), auth.name),
                      tasks[i].storageDoc) # {}) =>
      RejectedNaming(i, FirstChanged(StampSubject(resolveIdentifier(docs[i]), auth.name),
                                     tasks[i].storageDoc))

(***************************************************************************)
(* C11.  Idempotent classification: when the same valid new document is    *)
(* submitted twice in sequence (the second request starts after the first  *)
(* was answered), the first submission is classified INSERT and commits,   *)
(* the second is classified REPLACE against the record the first created,  *)
(* and afterwards exactly one stored record has that identifier.  Stated   *)
(* for a caller who holds the create and update permissions, with every    *)
(* storage call succeeding.                                                *)
(***************************************************************************)
\* both requests were answered, the second having arrived after the answer
\* to the first, and no lookup or bulk write of either was failed by the
\* storage
SubmittedTwiceInSequence ==
  /\ pc = "done"
  /\ rival.pc = "done"
  /\ rival.afterFirst
  /\ tasks # <<>>
  /\ tasks[1].operationType # "unknown"
  /\ ~BulkThrown
  /\ ~rival.bulkThrown

StoredWithIdentifierOf(d) ==
  {s \in storage : s.identifier = resolveIdentifier(d).identifier}

C11_IdempotentClassification ==
  (/\ SubmittedTwiceInSequence
   /\ NewValidDoc(docs[1])
   /\ auth.mayCreate
   /\ auth.mayUpdate) =>
    /\ tasks[1].operationType = "create"
    /\ Has(Answer, "insertedCount")
    /\ Answer.insertedCount = 1
    /\ rival.operationType = "update"
    /\ Cardinality(StoredWithIdentifierOf(docs[1])) = 1

(***************************************************************************)
(* C12.  The 'data-received' signal is emitted at most once per batch, and *)
(* it is emitted if and only if at least one insert or replace of the      *)
(* batch committed.                                                        *)
(***************************************************************************)
C12_DataReceivedOncePerCommittedBatch ==
  /\ Cardinality(SignalsNamed("data-received")) <= 1
  /\ SignalsNamed("data-received") # {} => BulkReturned /\ Committed # {}
  /\ pc = "done" =>
       ((BulkReturned /\ Committed # {}) => SignalsNamed("data-received") # {})

\* a batch with two committed writes was answered and signalled once
C12_Witness ==
  /\ pc = "done"
  /\ BulkReturned
  /\ Cardinality(Committed) = 2
  /\ Cardinality(SignalsNamed("data-received")) = 1

(***************************************************************************)
(* C13.  Whenever a batch ends with at least one error and nothing         *)
(* committed, the status is BAD_REQUEST and the body lists the errors:     *)
(* both when no write intent was produced (bulkWrite is then never called) *)
(* and when intents were submitted, the bulk call succeeded and every      *)
(* intent failed at the storage layer.                                     *)
(***************************************************************************)
\* every document failed preparation
NoIntentProduced == PreparationOver /\ operations = <<>> /\ processingErrors # <<>>

\* the bulk call succeeded and the storage refused every intent
EveryIntentRefused == BulkReturned /\ Committed = {}

C13_NothingCommittedIsBadRequest ==
  /\ (pc = "done" /\ NoIntentProduced) =>
       /\ bulkCalls = <<>>
       /\ Len(responses) = 1
       /\ Answer.status = "BAD_REQUEST"
       /\ Answer.description.errors = processingErrors
  /\ (pc = "done" /\ EveryIntentRefused) =>
       /\ Len(responses) = 1
       /\ Answer.status = "BAD_REQUEST"
       /\ Answer.insertedCount = 0
       /\ Answer.replacedCount = 0
       /\ Len(Answer.errors) = Len(processingErrors) + Cardinality(FailedAtStorage)
       /\ SubSeq(Answer.errors, 1, Len(processingErrors)) = processingErrors
       /\ \A k \in FailedAtStorage :
            \E j \in DOMAIN Answer.errors :
              /\ j > Len(processingErrors)
              /\ Answer.errors[j].operationIndex = k

\* one document failed preparation, the intent of the other was refused by
\* the storage, and the batch was answered
C13_Witness ==
  /\ pc = "done"
  /\ EveryIntentRefused
  /\ Len(processingErrors) = 1
  /\ Cardinality(FailedAtStorage) = 1
  /\ Answer.status = "BAD_REQUEST"

(***************************************************************************)
(* C14.  Full success is reported only when nothing failed: when intents   *)
(* are present and the bulk call succeeded, the status is OK if and only   *)
(* if the error list of the response (pre-check errors plus storage write  *)
(* errors) is empty; a batch with an errored document is never answered    *)
(* with OK.                                                                *)
(***************************************************************************)
C14_OkOnlyWithoutErrors ==
  /\ (pc = "done" /\ BulkReturned) =>
       /\ Answer.status = "OK" <=> Answer.errors = <<>>
       /\ Answer.errors = <<>> <=> (processingErrors = <<>> /\ FailedAtStorage = {})
  /\ (pc = "done" /\ PreparationOver /\ Answer.status = "OK") =>
       /\ processingErrors = <<>>
       /\ BulkReturned
       /\ FailedAtStorage = {}

\* two writes committed, nothing failed, and the answer is OK
C14_Witness ==
  /\ pc = "done"
  /\ BulkReturned
  /\ Cardinality(Committed) = 2
  /\ processingErrors = <<>>
  /\ Answer.status = "OK"

(***************************************************************************)
(* C15.  When the bulk call itself fails, the INTERNAL_ERROR response      *)
(* still reports every pre-check error collected during preparation, in    *)
(* addition to the single batch-level failure entry; and an infrastructure *)
(* failure (the bulk call failing) is the only outcome that yields a       *)
(* batch-wide failure status.                                              *)
(***************************************************************************)
C15_InfrastructureFailureOnly ==
  /\ (pc = "done" /\ BulkThrown) =>
       /\ Answer.status = "INTERNAL_ERROR"
       /\ Len(Answer.description.errors) = Len(processingErrors) + 1
       /\ SubSeq(Answer.description.errors, 1, Len(processingErrors)) = processingErrors
       /\ DOMAIN Answer.description.errors[Len(processingErrors) + 1] = {"error"}
  /\ (pc = "done" /\ Answer.status = "INTERNAL_ERROR") => BulkThrown

(***************************************************************************)
(* C16.  Soft-delete takes precedence in the cache: when a committed       *)
(* document of a bulk write has isValid equal to false,                    *)
(* MongoCachedCollection.bulkWrite emits a cache removal signal            *)
(* ('data-update' with op 'remove') for that document instead of including *)
(* it in an update signal (op 'update').  Stated for a collection whose    *)
(* cache is supported.                                                     *)
(***************************************************************************)
\* the committed positions of the call whose document is soft-deleted
CommittedSoftDeleted ==
  {k \in Committed : IsFalse(OpDoc(TheCall.operations[k]), "isValid")}

\* the cache signals of the given op
CacheSignalsWithOp(op) ==
  {e \in SignalsNamed("data-update") : bus[e].op = op}

C16_SoftDeleteRemovesFromCache ==
  (BulkReturned /\ cacheSupported = << TRUE >>) =>
    \A k \in CommittedSoftDeleted :
      /\ CacheSignalsWithOp("remove") # {}
      /\ \A e \in CacheSignalsWithOp("update") :
           \A j \in DOMAIN bus[e].changes :
             WithoutId(bus[e].changes[j]) # WithoutId(OpDoc(TheCall.operations[k]))

(***************************************************************************)
(* C17.  Optimistic-concurrency check: for a document classified REPLACE,  *)
(* if the request carries an If-Unmodified-Since precondition and the      *)
(* stored record's modification time (in seconds) is later than the        *)
(* precondition time (in seconds), the document yields one per-item error  *)
(* with httpStatus 412 (PRECONDITION_FAILED) and no write intent; if the   *)
(* stored time is not later, the precondition causes no error.  Stated for *)
(* a caller who holds the update permission and a document that passes     *)
(* update validation.                                                      *)
(***************************************************************************)
\* a settled REPLACE attempt that reached the If-Unmodified-Since test of a
\* request that carries the header
ReachedPrecondition(i) ==
  /\ tasks[i].pc = "settled"
  /\ tasks[i].operationType = "update"
  /\ auth.mayUpdate
  /\ validateUpdate(tasks[i].docItem, tasks[i].storageDoc, TRUE) = Ok
  /\ req.ifUnmodifiedSince # <<>>

\* the stored record was modified after the time the header names
ModifiedSince(i) == tasks[i].storageDoc.srvModified > req.ifUnmodifiedSince[1]

C17_PreconditionCheck ==
  \A i \in DOMAIN tasks :
    ReachedPrecondition(i) =>
      IF ModifiedSince(i)
      THEN /\ IntentsOf(i) = {}
           /\ Cardinality(PreCheckErrorsOf(i)) = 1
           /\ \A k \in PreCheckErrorsOf(i) :
                processingErrors[k].httpStatus = "PRECONDITION_FAILED"
      ELSE /\ Cardinality(IntentsOf(i)) = 1
           /\ PreCheckErrorsOf(i) = {}

(***************************************************************************)
(* C18.  Dedup race across concurrent requests: two concurrently processed *)
(* requests carrying a new document with the same identifier can both      *)
(* observe 'not found' in their dedup lookup and both submit INSERT; under *)
(* the unique-key constraint of the storage exactly one insert commits,    *)
(* the losing request receives a per-index write error that its response   *)
(* reports as a per-item error (not a batch failure), and one stored       *)
(* record with that identifier exists afterwards.  Stated for a caller who *)
(* holds the create permission, with no bulk call failing as a whole.      *)
(***************************************************************************)
\* both requests were answered, the second arrived while the first was in
\* flight, and the lookups of both found no stored record
BothSawNotFound ==
  /\ pc = "done"
  /\ rival.pc = "done"
  /\ ~rival.afterFirst
  /\ tasks # <<>>
  /\ tasks[1].operationType = "create"
  /\ rival.operationType = "create"
  /\ ~BulkThrown
  /\ ~rival.bulkThrown

\* the answer `won` reports the committed insert, the answer `lost` reports
\* the write error as its one per-item error
WonAndLost(won, lost) ==
  /\ won.insertedCount = 1
  /\ lost.insertedCount = 0
  /\ lost.status # "INTERNAL_ERROR"
  /\ Len(lost.errors) = 1
  /\ Has(lost.errors[1], "operationIndex")
  /\ lost.errors[1].operationType = "insert"

C18_DedupRace ==
  (BothSawNotFound /\ NewValidDoc(docs[1]) /\ auth.mayCreate) =>
    /\ BulkCalled
    /\ IsInsert(TheCall.operations[1])
    /\ rival.operations # <<>>
    /\ IsInsert(rival.operations[1])
    /\ \/ WonAndLost(Answer, rival.responses[1])
       \/ WonAndLost(rival.responses[1], Answer)
    /\ Cardinality(StoredWithIdentifierOf(docs[1])) = 1

(***************************************************************************)
(* C19.  The write-intent list submitted to the bulk write is ordered by   *)
(* original batch index: for any two input documents i < j that both       *)
(* produce a write intent, the intent of i precedes the intent of j in     *)
(* `operations`, under every interleaving of the preparation tasks.        *)
(***************************************************************************)
C19_IntentsInBatchOrder ==
  \A k1, k2 \in DOMAIN opSrc : k1 < k2 => opSrc[k1] < opSrc[k2]

(***************************************************************************)
(* C20.  Within one request the bulk write is invoked only after all       *)
(* preparation tasks have settled, at most once, and exactly once if and   *)
(* only if at least one write intent was produced; all dedup lookups of    *)
(* the batch happen before the batch's own writes, and the bulk write is   *)
(* requested as unordered.                                                 *)
(***************************************************************************)
C20_OneBulkWriteAfterAllSettled ==
  /\ Len(bulkCalls) <= 1
  /\ BulkCalled =>
       /\ PreparationOver
       /\ lookups = Len(docs)
       /\ TheCall.operations = operations
       /\ Len(operations) > 0
       /\ TheCall.ordered = FALSE
  /\ pc = "done" => (BulkCalled <=> Len(operations) > 0)
  /\ \A i \in DOMAIN tasks :
       tasks[i].pc # "settled" => (bulkCalls = <<>> /\ storage = InitialStorage)
  /\ ~BulkReturned => storage = InitialStorage

\* a batch of two documents, one of which failed preparation, and the one
\* bulk write made for the intent of the other
C20_Witness ==
  /\ Len(docs) = 2
  /\ lookups = 2
  /\ Len(bulkCalls) = 1
  /\ Len(TheCall.operations) = 1
  /\ Len(processingErrors) = 1
  /\ pc = "done"


(***************************************************************************)
(* C21.  Result reconciliation partitions the submitted intents: once the  *)
(* bulk result is in, every position of the submitted operations is either *)
(* committed (its document is in the success lists that are signalled) or  *)
(* failed (the answer has a write error item for it), never both and never *)
(* neither; and insertedCount + replacedCount + the number of write errors *)
(* equals the number of operations.                                        *)
(***************************************************************************)
\* the write error items of the answer, and the positions they name
WriteErrorItems == {e \in DOMAIN Answer.errors : Has(Answer.errors[e], "operationIndex")}
ReportedFailed == {Answer.errors[e].operationIndex : e \in WriteErrorItems}

\* the documents upsert signalled as committed, inserts before replaces
SignalledDocs(n) ==
  IF SignalsNamed(n) = {} THEN <<>> ELSE bus[CHOOSE e \in SignalsNamed(n) : TRUE].docs

\* the documents of the operations of one kind at the positions of S, in order
DocsAt(S, kind) ==
  LET keep == SortedSeq({k \in S : Has(TheCall.operations[k], kind)})
  IN [j \in DOMAIN keep |-> OpDoc(TheCall.operations[keep[j]])]

ItemsFor(k) == {e \in WriteErrorItems : Answer.errors[e].operationIndex = k}

C22_WriteErrorsReassociated ==
  (BulkReturned /\ Answered) =>
    \A j \in DOMAIN TheCall.result.writeErrors :
      LET writeError == TheCall.result.writeErrors[j]
          k == writeError.index
      IN /\ k \in DOMAIN TheCall.operations
         /\ Cardinality(ItemsFor(k)) = 1
         /\ \A e \in ItemsFor(k) :
              /\ Answer.errors[e].code = writeError.code
              /\ Answer.errors[e].error = writeError.errmsg
              /\ Answer.errors[e].identifier = OpDoc(TheCall.operations[k]).identifier
              /\ Answer.errors[e].identifier = resolveIdentifier(docs[opSrc[k]]).identifier
              /\ Answer.errors[e].operationType =
                   (IF IsInsert(TheCall.operations[k]) THEN "insert" ELSE "replace")

\* the first document of the batch was dropped as a pre-check error, the
\* second became the first operation, and the storage refused it
C22_Witness ==
  /\ BulkReturned
  /\ Answered
  /\ Len(docs) = 2
  /\ PreCheckErrorsOf(1) # {}
  /\ opSrc = << 2 >>
  /\ FailedAtStorage = {1}
  /\ ItemsFor(1) # {}


(***************************************************************************)
(* C23.  Timestamp stamping: every insert intent carries srvCreated =      *)
(* srvModified = now; every replace intent carries srvModified = now and   *)
(* the srvCreated of the stored record it replaces; a document that ended  *)
(* as a pre-check error is not among the submitted operations; the         *)
(* documents of the request body carry no stamp they did not arrive with.  *)
(***************************************************************************)
\* the stored record the k-th intent was prepared against
StoredFor(k) == tasks[opSrc[k]].storageDoc

InsertStamped(op) ==
  /\ op.insertOne.document.srvCreated = currentTime
  /\ op.insertOne.document.srvModified = currentTime

NeverSubmitted(i) ==
  /\ IntentsOf(i) = {}
  /\ BulkCalled => \A k \in DOMAIN TheCall.operations : opSrc[k] # i

\* the statement as claimed: the creation time of the stored record, always
C23_StampingAsClaimed ==
  /\ \A k \in DOMAIN operations :
       /\ IsInsert(operations[k]) => InsertStamped(operations[k])
       /\ IsReplace(operations[k]) =>
            /\ operations[k].replaceOne.replacement.srvModified = currentTime
            /\ Has(StoredFor(k), "srvCreated")
            /\ operations[k].replaceOne.replacement.srvCreated = StoredFor(k).srvCreated
  /\ \A i \in DOMAIN tasks : PreCheckErrorsOf(i) # {} => NeverSubmitted(i)

\* the statement that holds: the creation time of the stored record when it
\* has one, and now when it has none
C23_TimestampStamping ==
  /\ \A k \in DOMAIN operations :
       /\ IsInsert(operations[k]) => InsertStamped(operations[k])
       /\ IsReplace(operations[k]) =>
            /\ operations[k].replaceOne.replacement.srvModified = currentTime
            /\ operations[k].replaceOne.replacement.srvCreated =
                 (IF Has(StoredFor(k), "srvCreated") THEN StoredFor(k).srvCreated
                  ELSE currentTime)
  /\ \A i \in DOMAIN tasks : PreCheckErrorsOf(i) # {} => NeverSubmitted(i)
  /\ BulkCalled => TheCall.operations = operations

\* a batch of two was submitted: the replace of a record with a creation
\* time, which is kept and differs from now, and the replace of a record
\* without one; a third kind of document would have been a pre-check error
C23_Witness ==
  /\ BulkCalled
  /\ Len(operations) = 2
  /\ \E k \in DOMAIN operations :
       /\ Has(StoredFor(k), "srvCreated")
       /\ operations[k].replaceOne.replacement.srvCreated = StoredFor(k).srvCreated
       /\ StoredFor(k).srvCreated # currentTime
  /\ \E k \in DOMAIN operations :
       /\ ~Has(StoredFor(k), "srvCreated")
       /\ operations[k].replaceOne.replacement.srvCreated = currentTime


(***************************************************************************)
(* operationTools.resolveIdentifier on its own: the documents of a batch   *)
(* vary in device, date, eventType and identifier, and each is resolved as *)
(* upsert.js lines 38-44 resolve it, on a copy.                            *)
(***************************************************************************)
\* documents that differ in what the identifier is computed from: eventType
\* absent, empty or set; identifier absent, empty, foreign, or the computed
\* value of another document
KeyFields == [device : {"dev", "dev2"}, date : {20, 21}]

KeyedDocs == KeyFields \cup {With(d, "eventType", e) : d \in KeyFields, e \in {"", "bolus"}}

IdentityDocs ==
  KeyedDocs \cup {With(d, "identifier", id) : d \in KeyedDocs, id \in {"", "a", "uuid5:dev_20"}}

InitIdentity ==
  /\ req \in {[body |-> [isArray |-> TRUE, value |-> q], ifUnmodifiedSince |-> <<>>] :
                q \in SeqsUpTo(IdentityDocs, MaxDocs) \ {<<>>}}
  /\ auth = [name |-> "", mayCreate |-> TRUE, mayUpdate |-> TRUE]
  /\ cacheSupported = NotAsked
  /\ pc = "resolveIdentifier"
  /\ operations = <<>>
  /\ Idle

\* lines 38-44 for the next document of the batch
ResolveIdentifier ==
  /\ pc = "resolveIdentifier"
  /\ Len(tasks) < Len(docs)
  /\ tasks' = Append(tasks,
                [pc |-> "resolved",
                 docItem |-> resolveIdentifier(parseDate(docs[Len(tasks) + 1])),
                 storageDoc |-> NoDoc,
                 operationType |-> "unknown"])
  /\ UNCHANGED << rival, req, auth, cacheSupported, currentTime, storage, pc, operations,
                  opSrc, processingErrors, bulkCalls, lookups, bus, responses >>

NextIdentity == ResolveIdentifier

SpecIdentity == InitIdentity /\ [][NextIdentity]_vars

(***************************************************************************)
(* C24.  Identity resolution is lenient and deterministic: resolving never *)
(* fails and always leaves the document with an identifier; a document     *)
(* that arrives with a (truthy) identifier is left as it is, also when the *)
(* identifier differs from the computed value; a document without one gets *)
(* the computed value and nothing else changes; and the computed value is  *)
(* the same for two documents with equal device, date and eventType.       *)
(***************************************************************************)
SameField(d, e, f) == (Has(d, f) <=> Has(e, f)) /\ (Has(d, f) => d[f] = e[f])

SameKeyFields(d, e) ==
  SameField(d, e, "device") /\ SameField(d, e, "date") /\ SameField(d, e, "eventType")

C24_IdentityResolution ==
  /\ \A i \in DOMAIN tasks :
       LET given == docs[i]
           resolved == tasks[i].docItem
       IN tasks[i].pc = "resolved" =>
            /\ TruthyStr(resolved, "identifier")
            /\ TruthyStr(given, "identifier") => resolved = given
            /\ ~TruthyStr(given, "identifier") =>
                 resolved = With(given, "identifier", calculateIdentifier(given))
  /\ \A i, j \in DOMAIN docs :
       SameKeyFields(docs[i], docs[j]) =>
         calculateIdentifier(docs[i]) = calculateIdentifier(docs[j])

\* two documents with the same device, date and eventType: the first came
\* with an identifier that is not the computed one and kept it, the second
\* came without and got the computed one
C24_Witness ==
  /\ Len(tasks) = 2
  /\ SameKeyFields(docs[1], docs[2])
  /\ TruthyStr(docs[1], "identifier")
  /\ docs[1].identifier # calculateIdentifier(docs[1])
  /\ tasks[1].docItem.identifier = docs[1].identifier
  /\ ~Has(docs[2], "identifier")
  /\ tasks[2].docItem.identifier = calculateIdentifier(docs[2])


(***************************************************************************)
(* C25.  Inserts and replaces are signalled distinctly and batched: a      *)
(* batch gives at most one 'storage-socket-create' signal, whose documents *)
(* are exactly those of the committed insert intents, and at most one      *)
(* 'storage-socket-update' signal, whose documents are exactly those of    *)
(* the committed replace intents; a signal is emitted only when its list   *)
(* is not empty, and no document is in both.                               *)
(***************************************************************************)
SocketSignals == SignalsNamed("storage-socket-create") \cup SignalsNamed("storage-socket-update")

C25_DistinctBatchedSignals ==
  /\ Cardinality(SignalsNamed("storage-socket-create")) <= 1
  /\ Cardinality(SignalsNamed("storage-socket-update")) <= 1
  /\ \A e \in SocketSignals :
       /\ BulkReturned
       /\ Len(bus[e].docs) > 0
       /\ bus[e].colName = colName
  /\ \A e \in SignalsNamed("storage-socket-create") :
       bus[e].docs = DocsAt(Committed, "insertOne")
  /\ \A e \in SignalsNamed("storage-socket-update") :
       bus[e].docs = DocsAt(Committed, "replaceOne")
  /\ (pc = "done" /\ BulkReturned) =>
       /\ DocsAt(Committed, "insertOne") # <<>> => SignalsNamed("storage-socket-create") # {}
       /\ DocsAt(Committed, "replaceOne") # <<>> => SignalsNamed("storage-socket-update") # {}
  /\ \A c \in SignalsNamed("storage-socket-create"), u \in SignalsNamed("storage-socket-update") :
       \A j \in DOMAIN bus[c].docs, l \in DOMAIN bus[u].docs : bus[c].docs[j] # bus[u].docs[l]

\* two replaces of a batch committed and were signalled together, in one
\* update signal and no create signal
C25_Witness ==
  /\ pc = "done"
  /\ BulkReturned
  /\ Cardinality(Committed) = 2
  /\ Cardinality(SignalsNamed("storage-socket-update")) = 1
  /\ \A e \in SignalsNamed("storage-socket-update") : Len(bus[e].docs) = 2
  /\ SignalsNamed("storage-socket-create") = {}


(***************************************************************************)
(* C26.  Exactly one response is sent per request: res receives no body    *)
(* while the handler runs, the handler cannot stop before it has answered, *)
(* and once it is done res has received exactly one status and body, on    *)
(* every path: empty body, every document failed preparation, bulk result  *)
(* with or without write errors, bulk call failure, and a rejection caught *)
(* by the wrapper of the operation.                                        *)
(***************************************************************************)
\* the handler has a step to take: the guards of the actions of Next
HandlerCanStep ==
  \/ pc \in {"create", "upsert", "bulkWrite"}
  \/ /\ pc = "allSettled"
     /\ \/ AllTasksSettled(tasks)
        \/ \E i \in DOMAIN tasks : tasks[i].pc \in {"findOneFilter", "demandPermission"}

C26_ExactlyOneResponse ==
  /\ Len(responses) <= 1
  /\ pc = "done" => Len(responses) = 1
  /\ pc # "done" => (Len(responses) = 0 /\ HandlerCanStep)
  /\ \A r \in DOMAIN responses : Has(responses[r], "status")

\* a batch whose first document failed preparation and whose second was
\* refused by the storage was answered once
C26_Witness ==
  /\ pc = "done"
  /\ Len(docs) = 2
  /\ Len(processingErrors) = 1
  /\ BulkReturned
  /\ FailedAtStorage = {1}
  /\ Len(responses) = 1
  /\ Answer.status = "BAD_REQUEST"


(***************************************************************************)
(* C27.  The subject name of the caller is stamped onto the document       *)
(* before the update validation, and `subject` is immutable.  So a         *)
(* document classified REPLACE against a stored record that is valid and   *)
(* not read-only, sent by a caller whose subject name differs from the     *)
(* subject of the stored record, is rejected with one BAD_REQUEST per-item *)
(* error that names an immutable field, and yields no replace intent; such *)
(* a replace yields an intent only when the caller's subject name is the   *)
(* stored subject or the caller has no subject name.                       *)
(***************************************************************************)
SubjectDiffers(i) ==
  /\ auth.name # ""
  /\ ~Has(tasks[i].storageDoc, "subject") \/ tasks[i].storageDoc.subject # auth.name

\* the document of task i as the validation sees it
Validated(i) == StampSubject(resolveIdentifier(docs[i]), auth.name)

SubjectRuleAt(i) ==
  /\ SubjectDiffers(i) =>
       /\ ChangedFields(Validated(i), tasks[i].storageDoc) # {}
       /\ RejectedNaming(i, FirstChanged(Validated(i), tasks[i].storageDoc))
  /\ IntentsOf(i) # {} =>
       (auth.name = "" \/ (/\ Has(tasks[i].storageDoc, "subject")
                           /\ tasks[i].storageDoc.subject = auth.name))

\* the statement as claimed: for every caller
C27_SubjectMismatchAsClaimed ==
  \A i \in DOMAIN tasks : OpenReplaceAttempt(i) => SubjectRuleAt(i)

\* the statement that holds: for a caller who holds the update permission;
\* one who does not is refused before the validation, with FORBIDDEN
C27_SubjectMismatchRejected ==
  \A i \in DOMAIN tasks :
    /\ (OpenReplaceAttempt(i) /\ auth.mayUpdate) => SubjectRuleAt(i)
    /\ (OpenReplaceAttempt(i) /\ ~auth.mayUpdate) =>
         /\ IntentsOf(i) = {}
         /\ \A k \in PreCheckErrorsOf(i) : processingErrors[k].httpStatus = "FORBIDDEN"

\* a caller named otherwise than the stored subject, who may update, sent a
\* document that changes nothing of the stored record; it was rejected for
\* the subject
C27_Witness ==
  /\ auth.mayUpdate
  /\ \E i \in DOMAIN tasks :
       /\ OpenReplaceAttempt(i)
       /\ SubjectDiffers(i)
       /\ ChangedFields(docs[i], tasks[i].storageDoc) = {}
       /\ RejectedNaming(i, "subject")

=============================================================================
